---- MODULE Spec2Model ----
(***************************************************************************)
(* Model of django_extensions/db/fields/encrypted.py: the Keyczar-backed   *)
(* BaseEncryptedField and the GnuPG-backed BaseGpgField.                   *)
(*                                                                         *)
(* Python values are records [t, s]: t is the Python type ("None",         *)
(* "unicode", "str") and s the sequence of characters (unicode) or bytes   *)
(* (str).  ASCII characters are the same token as text and as byte; the    *)
(* non-ASCII character U+00E9 is the token "E9" as text and the two bytes  *)
(* "C3","A9" in UTF-8.                                                     *)
(***************************************************************************)
EXTENDS Integers, Sequences, FiniteSets, TLC

VARIABLES
    settings,   \* django.conf.settings: the names set, and GPG_USER's value
    field,      \* the field object built by __init__ (NoField before)
    op,         \* the last operation: "start", "init", "encode", "decode", "row", "cycle"
    arg,        \* the value the last encode / decode was called with
    ret,        \* what it returned (NoValue when it raised)
    raised,     \* the exception it ended in (NoExc when it returned)
    branch,     \* the branch to_python took: "passthrough", "decrypt", "legacy"
    warned,     \* the warnings it emitted
    calls,      \* the engine calls it made, in order
    stored,     \* the value in the database row (NoValue: no row)
    saved,      \* the value whose encode wrote the row (NoValue: not written by encode)
    orig,       \* the stored value that encode produced
    cycles      \* load-then-save cycles since

vars == <<settings, field, op, arg, ret, raised, branch, warned, calls,
          stored, saved, orig, cycles>>

\* ------------------------------------------------------------- bounds
MaxLen == 2        \* longest text drawn as an input (characters)
MaxDeclared == 2   \* largest small max_length a field is declared with
MaxNonce == 2      \* distinct random IVs / session keys the engines draw
MaxCycles == 2     \* load-then-save cycles followed after one save

\* ------------------------------------------------ Python value helpers
NoLimit == -1      \* max_length=None (kwargs.get('max_length', None))

None == [t |-> "None", s |-> <<>>]
NoValue == [t |-> "NoValue", s |-> <<>>]
Uni(s) == [t |-> "unicode", s |-> s]
Str(s) == [t |-> "str", s |-> s]

\* Python truthiness of a value: None and empty strings are falsy.
Truthy(v) == v.t \in {"unicode", "str"} /\ Len(v.s) > 0

\* Python truthiness of max_length: None and 0 are falsy.
LimitSet(n) == n # NoLimit /\ n # 0

\* value.startswith(prefix)
StartsWith(v, p) == Len(v.s) >= Len(p) /\ SubSeq(v.s, 1, Len(p)) = p

\* "value and value.startswith(prefix)": the value is tagged ciphertext.
\* (ShouldDecrypt_NoPrefixTest: the same test with startswith left out.)
ShouldDecrypt_NoPrefixTest(value, prefix) == Truthy(value)

ShouldDecrypt(value, prefix) == Truthy(value) /\ StartsWith(value, prefix)

\* "value and not value.startswith(prefix)": the value is still to be encrypted.
\* (ShouldEncrypt_NoPrefixTest: the same guard with startswith left out.)
ShouldEncrypt_NoPrefixTest(value, prefix) == Truthy(value)

ShouldEncrypt(value, prefix) == Truthy(value) /\ ~StartsWith(value, prefix)

\* prefix + ciphertext (Tagged_NoPrefix: the ciphertext alone).
Tagged_NoPrefix(prefix, c) == [t |-> "str", s |-> c]

Tagged(prefix, c) == [t |-> "str", s |-> prefix \o c]

\* sub in s, for strings
InStr(sub, s) ==
    \E i \in 0..(Len(s) - Len(sub)) : SubSeq(s, i + 1, i + Len(sub)) = sub

Reverse(s) == [i \in 1..Len(s) |-> s[Len(s) + 1 - i]]

\* 'x' * n
Filler(n) == [i \in 1..n |-> "x"]

\* unicode.encode('utf-8')
RECURSIVE Utf8Encode(_)
Utf8Encode(s) ==
    IF s = <<>> THEN <<>>
    ELSE (IF Head(s) = "E9" THEN <<"C3", "A9">> ELSE <<Head(s)>>)
         \o Utf8Encode(Tail(s))

\* str.decode('utf-8'): ok is FALSE where Python raises UnicodeDecodeError.
RECURSIVE Utf8Decode(_)
Utf8Decode(b) ==
    IF b = <<>> THEN [ok |-> TRUE, s |-> <<>>]
    ELSE IF Head(b) = "C3"
         THEN IF Len(b) >= 2 /\ b[2] = "A9"
              THEN LET r == Utf8Decode(SubSeq(b, 3, Len(b)))
                   IN  [ok |-> r.ok, s |-> <<"E9">> \o r.s]
              ELSE [ok |-> FALSE, s |-> <<>>]
         ELSE IF Head(b) \in {"A9", "E9"}
              THEN [ok |-> FALSE, s |-> <<>>]
              ELSE LET r == Utf8Decode(Tail(b))
                   IN  [ok |-> r.ok, s |-> <<Head(b)>> \o r.s]

\* --------------------------------------------------------- exceptions
NoExc == [type |-> "none", what |-> ""]
ImproperlyConfigured(setting) == [type |-> "ImproperlyConfigured", what |-> setting]
KeyczarError == [type |-> "KeyczarError", what |-> "Decrypt"]
UnicodeDecodeError == [type |-> "UnicodeDecodeError", what |-> "utf-8"]

\* ------------------------------------------------------------ engines
Digits == <<"1", "2", "3", "4", "5", "6", "7", "8", "9">>
NonceChar(n) == Digits[n]
Nonces == 1..MaxNonce

\* keyczar.Crypter.Encrypt: header, IV, enciphered body, signature.  The
\* output length depends on the input length only.
KeyczarEncrypt(b, n) == <<"K", NonceChar(n)>> \o Reverse(b) \o <<"#">>

\* keyczar.Crypter.Decrypt: ok is FALSE where keyczar raises (short
\* ciphertext, unknown key header, bad signature).
KeyczarDecrypt(c) ==
    IF /\ Len(c) >= 3
       /\ c[1] = "K"
       /\ \E n \in 1..Len(Digits) : c[2] = Digits[n]
       /\ c[Len(c)] = "#"
    THEN [ok |-> TRUE, data |-> Reverse(SubSeq(c, 3, Len(c) - 1))]
    ELSE [ok |-> FALSE, data |-> <<>>]

\* The identities of the GnuPG key-ring, and the key id of each.
UidList == << <<"b">>, <<"a", "b">> >>
Uids == {UidList[i] : i \in 1..Len(UidList)}
KeyId(uid) == Digits[CHOOSE i \in 1..Len(UidList) : UidList[i] = uid]

\* str(gnupg.GPG.encrypt(data, recipient)): armour, recipient key id,
\* session key, enciphered body, armour tail.
GpgEncrypt(b, uid, n) ==
    <<"G", KeyId(uid), NonceChar(n)>> \o Reverse(b) \o <<"~">>

\* str(gnupg.GPG.decrypt(message)): the result object's data, which is
\* empty when gpg fails (malformed message, no secret key for it).
GpgDecrypt(c, secret) ==
    IF /\ Len(c) >= 4
       /\ c[1] = "G"
       /\ \E u \in secret : c[2] = KeyId(u)
       /\ \E n \in 1..Len(Digits) : c[3] = Digits[n]
       /\ c[Len(c)] = "~"
    THEN [ok |-> TRUE, data |-> Reverse(SubSeq(c, 4, Len(c) - 1))]
    ELSE [ok |-> FALSE, data |-> <<>>]

\* str(gnupg.GPG.list_keys(True)): the printed list of secret keys.
RECURSIVE ListKeysFrom(_, _)
ListKeysFrom(i, secret) ==
    IF i > Len(UidList) THEN <<"]">>
    ELSE (IF UidList[i] \in secret THEN <<"'">> \o UidList[i] \o <<"'", ",">> ELSE <<>>)
         \o ListKeysFrom(i + 1, secret)

ListKeysStr(secret) == <<"[">> \o ListKeysFrom(1, secret)

\* ------------------------------------------------------------- fields
EncPrefix == <<"e", "n", "c", "_", "s", "t", "r", ":", ":", ":">>
GpgPrefix == <<"g", "p", "g", "_", "s", "t", "r", ":", ":", ":">>

FieldName == "secret"
KeyTypes == {"AesKey", "RsaPrivateKey", "RsaPublicKey"}

NoField ==
    [cls |-> "none", name |-> "", primary_key |-> "", secret |-> {},
     unencrypted_length |-> NoLimit, max_length |-> NoLimit]

Call(fn, data) == [fn |-> fn, data |-> data]

\* BaseEncryptedField.__init__ testing for the other engine's setting.
BaseEncryptedField_init_WrongSetting(s, max_length, kt, n) ==
    IF "GPG_KEYS_DIR" \notin s.has
    THEN [raised |-> ImproperlyConfigured("ENCRYPTED_FIELD_KEYS_DIR"),
          field |-> NoField, calls |-> <<>>]
    ELSE [raised |-> NoExc,
          field |-> [cls |-> "enc", name |-> FieldName,
                     primary_key |-> kt, secret |-> {},
                     unencrypted_length |-> max_length,
                     max_length |-> IF LimitSet(max_length)
                                    THEN Len(EncPrefix)
                                         + Len(KeyczarEncrypt(Filler(max_length), n))
                                    ELSE max_length],
          calls |-> <<Call("Read", <<>>)>> \o
                    (IF LimitSet(max_length)
                     THEN <<Call("Encrypt", Filler(max_length))>>
                     ELSE <<>>)]

\* BaseEncryptedField.__init__: kt is the primary key Crypter.Read finds.
BaseEncryptedField_init(s, max_length, kt, n) ==
    IF "ENCRYPTED_FIELD_KEYS_DIR" \notin s.has
    THEN [raised |-> ImproperlyConfigured("ENCRYPTED_FIELD_KEYS_DIR"),
          field |-> NoField, calls |-> <<>>]
    ELSE LET probe == KeyczarEncrypt(Filler(max_length), n)
         IN  [raised |-> NoExc,
              field |-> [cls |-> "enc", name |-> FieldName,
                         primary_key |-> kt, secret |-> {},
                         unencrypted_length |-> max_length,
                         max_length |-> IF LimitSet(max_length)
                                        THEN Len(EncPrefix) + Len(probe)
                                        ELSE max_length],
              calls |-> <<Call("Read", <<>>)>> \o
                        (IF LimitSet(max_length)
                         THEN <<Call("Encrypt", Filler(max_length))>>
                         ELSE <<>>)]

\* BaseEncryptedField.to_python
BaseEncryptedField_to_python(f, value) ==
    IF f.primary_key = "RsaPublicKey"
    THEN [raised |-> NoExc, ret |-> value, branch |-> "passthrough", calls |-> <<>>]
    ELSE IF ShouldDecrypt(value, EncPrefix)
    THEN LET c == SubSeq(value.s, Len(EncPrefix) + 1, Len(value.s))
             d == KeyczarDecrypt(c)
             u == Utf8Decode(d.data)
         IN  IF ~d.ok
             THEN [raised |-> KeyczarError, ret |-> NoValue,
                   branch |-> "decrypt", calls |-> <<Call("Decrypt", c)>>]
             ELSE IF d.data = <<>>
             THEN [raised |-> NoExc, ret |-> Str(<<>>),
                   branch |-> "decrypt", calls |-> <<Call("Decrypt", c)>>]
             ELSE IF ~u.ok
             THEN [raised |-> UnicodeDecodeError, ret |-> NoValue,
                   branch |-> "decrypt", calls |-> <<Call("Decrypt", c)>>]
             ELSE [raised |-> NoExc, ret |-> Uni(u.s),
                   branch |-> "decrypt", calls |-> <<Call("Decrypt", c)>>]
    ELSE [raised |-> NoExc, ret |-> value, branch |-> "legacy", calls |-> <<>>]

\* The bytes get_db_prep_value hands to the engine, and its warning.
\* (EncodedBytes_NoEncode: unicode passed on without .encode('utf-8');
\* Truncated_Never: the cut left out.)
EncodedBytes_NoEncode(value) == value.s

EncodedBytes(value) == IF value.t = "unicode" THEN Utf8Encode(value.s) ELSE value.s

MustTruncate(f, b) == LimitSet(f.unencrypted_length) /\ Len(b) > f.unencrypted_length

Truncated_Never(f, b) == b

Truncated(f, b) == IF MustTruncate(f, b) THEN SubSeq(b, 1, f.unencrypted_length) ELSE b

Warnings(f, b) ==
    IF MustTruncate(f, b)
    THEN <<[category |-> "EncryptionWarning", name |-> f.name,
            from |-> Len(b), to |-> f.unencrypted_length]>>
    ELSE <<>>

\* BaseEncryptedField.get_db_prep_value
BaseEncryptedField_get_db_prep_value(f, value, n) ==
    IF ShouldEncrypt(value, EncPrefix)
    THEN LET b == EncodedBytes(value)
             t == Truncated(f, b)
         IN  [raised |-> NoExc,
              ret |-> Tagged(EncPrefix, KeyczarEncrypt(t, n)),
              warned |-> Warnings(f, b),
              calls |-> <<Call("Encrypt", t)>>]
    ELSE [raised |-> NoExc, ret |-> value, warned |-> <<>>, calls |-> <<>>]

\* BaseGpgField.__init__: secret is the set of identities whose secret key
\* the key-ring at GPG_KEYS_DIR holds.
BaseGpgField_init(s, max_length, secret, n) ==
    IF "GPG_KEYS_DIR" \notin s.has
    THEN [raised |-> ImproperlyConfigured("GPG_KEYS_DIR"),
          field |-> NoField, calls |-> <<>>]
    ELSE IF "GPG_USER" \notin s.has
    THEN [raised |-> ImproperlyConfigured("GPG_USER"),
          field |-> NoField, calls |-> <<>>]
    ELSE LET probe == GpgEncrypt(Filler(max_length), s.GPG_USER, n)
         IN  [raised |-> NoExc,
              field |-> [cls |-> "gpg", name |-> FieldName,
                         primary_key |-> "", secret |-> secret,
                         unencrypted_length |-> max_length,
                         max_length |-> IF LimitSet(max_length)
                                        THEN Len(GpgPrefix) + Len(probe)
                                        ELSE max_length],
              calls |-> <<Call("GPG", <<>>)>> \o
                        (IF LimitSet(max_length)
                         THEN <<Call("Encrypt", Filler(max_length))>>
                         ELSE <<>>)]

\* The test BaseGpgField.to_python makes before it decrypts.
GpgUserListed(f, s) == InStr(s.GPG_USER, ListKeysStr(f.secret))

\* BaseGpgField.to_python
BaseGpgField_to_python(f, s, value) ==
    IF ~GpgUserListed(f, s)
    THEN [raised |-> NoExc, ret |-> value, branch |-> "passthrough",
          calls |-> <<Call("list_keys", <<>>)>>]
    ELSE IF ShouldDecrypt(value, GpgPrefix)
    THEN LET c == SubSeq(value.s, Len(GpgPrefix) + 1, Len(value.s))
             d == GpgDecrypt(c, f.secret)
             u == Utf8Decode(d.data)
             cs == <<Call("list_keys", <<>>), Call("Decrypt", c)>>
         IN  IF d.data = <<>>
             THEN [raised |-> NoExc, ret |-> Str(<<>>), branch |-> "decrypt", calls |-> cs]
             ELSE IF ~u.ok
             THEN [raised |-> UnicodeDecodeError, ret |-> NoValue,
                   branch |-> "decrypt", calls |-> cs]
             ELSE [raised |-> NoExc, ret |-> Uni(u.s), branch |-> "decrypt", calls |-> cs]
    ELSE [raised |-> NoExc, ret |-> value, branch |-> "legacy",
          calls |-> <<Call("list_keys", <<>>)>>]

\* BaseGpgField.get_db_prep_value
BaseGpgField_get_db_prep_value(f, s, value, n) ==
    IF ShouldEncrypt(value, GpgPrefix)
    THEN LET b == EncodedBytes(value)
             t == Truncated(f, b)
         IN  [raised |-> NoExc,
              ret |-> Tagged(GpgPrefix, GpgEncrypt(t, s.GPG_USER, n)),
              warned |-> Warnings(f, b),
              calls |-> <<Call("Encrypt", t)>>]
    ELSE [raised |-> NoExc, ret |-> value, warned |-> <<>>, calls |-> <<>>]

\* The method the framework reaches through the field's class.
Prefix(f) == IF f.cls = "gpg" THEN GpgPrefix ELSE EncPrefix

to_python(f, s, value) ==
    IF f.cls = "gpg" THEN BaseGpgField_to_python(f, s, value)
    ELSE BaseEncryptedField_to_python(f, value)

get_db_prep_value(f, s, value, n) ==
    IF f.cls = "gpg" THEN BaseGpgField_get_db_prep_value(f, s, value, n)
    ELSE BaseEncryptedField_get_db_prep_value(f, value, n)

\* ------------------------------------------------------------- inputs
SettingNames == {"ENCRYPTED_FIELD_KEYS_DIR", "GPG_KEYS_DIR", "GPG_USER"}

Settings ==
    {[has |-> h, GPG_USER |-> u] : h \in SUBSET SettingNames, u \in Uids \cup {<<>>}}

TextAlphabet == {"a", "E9"}
Texts(n) == UNION {[1..k -> TextAlphabet] : k \in 0..n}

\* max_length as declared: None, small limits, and one above the prefix length.
DeclaredLengths == {NoLimit} \cup (0..MaxDeclared) \cup {Len(EncPrefix) + 1}

\* Values handed to get_db_prep_value: None, text, byte strings, and text
\* that itself begins with the prefix.
PlainInputs(f) ==
    {None}
    \cup {Uni(t) : t \in Texts(MaxLen)}
    \cup {Str(Utf8Encode(t)) : t \in Texts(1)}
    \cup {Str(<<"C3">>)}
    \cup {Uni(Prefix(f) \o t) : t \in Texts(1)}

\* Rows the table holds that this field did not write: legacy plaintext,
\* rows of another key or identity, damaged rows.
LegacyRows(f) ==
    {None, Uni(<<>>), Uni(<<"a">>), Uni(<<"E9">>),
     Uni(SubSeq(Prefix(f), 1, Len(Prefix(f)) - 1)),
     Uni(Prefix(f)), Uni(Prefix(f) \o <<"z">>)}
    \cup (IF f.cls = "gpg"
          THEN {Uni(EncPrefix \o <<"a">>)}
               \cup {Uni(GpgPrefix \o GpgEncrypt(b, u, 1)) :
                        b \in {<<"a">>, <<"C3">>}, u \in Uids}
          ELSE {Uni(GpgPrefix \o <<"a">>),
                Uni(EncPrefix \o <<"J", "1", "a", "#">>)}
               \cup {Uni(EncPrefix \o KeyczarEncrypt(b, 1)) :
                        b \in {<<>>, <<"a">>, <<"C3">>}})

\* ------------------------------------------------------------ actions
\* The project configures one engine, completely or not: GPG_USER has a
\* value exactly when it is set, and a project that sets the Keyczar
\* directory sets no GnuPG setting (the Keyczar field reads none).
Init ==
    /\ settings \in {s \in Settings :
                        /\ ("GPG_USER" \in s.has) <=> (s.GPG_USER # <<>>)
                        /\ ("ENCRYPTED_FIELD_KEYS_DIR" \in s.has)
                              => (s.has = {"ENCRYPTED_FIELD_KEYS_DIR"})}
    /\ field = NoField
    /\ op = "start"
    /\ arg = NoValue
    /\ ret = NoValue
    /\ raised = NoExc
    /\ branch = ""
    /\ warned = <<>>
    /\ calls = <<>>
    /\ stored = NoValue
    /\ saved = NoValue
    /\ orig = NoValue
    /\ cycles = 0

\* A model declares an EncryptedCharField / EncryptedTextField.
ConstructEncrypted ==
    /\ op = "start"
    /\ \E m \in DeclaredLengths, kt \in KeyTypes, n \in Nonces :
         LET r == BaseEncryptedField_init(settings, m, kt, n)
         IN  /\ field' = r.field
             /\ raised' = r.raised
             /\ calls' = r.calls
    /\ op' = "init"
    /\ arg' = [t |-> "cls", s |-> <<"enc">>]
    /\ UNCHANGED <<settings, ret, branch, warned, stored, saved, orig, cycles>>

\* A model declares a GpgCharField / GpgTextField.
ConstructGpg ==
    /\ op = "start"
    /\ \E m \in DeclaredLengths, secret \in SUBSET Uids, n \in Nonces :
         LET r == BaseGpgField_init(settings, m, secret, n)
         IN  /\ field' = r.field
             /\ raised' = r.raised
             /\ calls' = r.calls
    /\ op' = "init"
    /\ arg' = [t |-> "cls", s |-> <<"gpg">>]
    /\ UNCHANGED <<settings, ret, branch, warned, stored, saved, orig, cycles>>

\* The framework saves a new object: the row becomes get_db_prep_value(value).
Save ==
    /\ field # NoField
    /\ stored = NoValue
    /\ \E v \in PlainInputs(field), n \in Nonces :
         LET r == get_db_prep_value(field, settings, v, n)
         IN  /\ arg' = v
             /\ ret' = r.ret
             /\ raised' = r.raised
             /\ warned' = r.warned
             /\ calls' = r.calls
             /\ stored' = r.ret
             /\ saved' = v
             /\ orig' = r.ret
    /\ op' = "encode"
    /\ branch' = ""
    /\ cycles' = 0
    /\ UNCHANGED <<settings, field>>

\* The stored value itself is handed to get_db_prep_value again.
SaveAgain ==
    /\ field # NoField
    /\ stored # NoValue
    /\ \E n \in Nonces :
         LET r == get_db_prep_value(field, settings, stored, n)
         IN  /\ ret' = r.ret
             /\ raised' = r.raised
             /\ warned' = r.warned
             /\ calls' = r.calls
             /\ stored' = r.ret
             /\ orig' = r.ret
    /\ arg' = stored
    /\ saved' = stored
    /\ op' = "encode"
    /\ branch' = ""
    /\ cycles' = 0
    /\ UNCHANGED <<settings, field>>

\* The table holds a row this field did not write.
LegacyRow ==
    /\ field # NoField
    /\ stored = NoValue
    /\ \E v \in LegacyRows(field) :
         /\ stored' = v
         /\ arg' = v
    /\ op' = "row"
    /\ ret' = NoValue
    /\ raised' = NoExc
    /\ branch' = ""
    /\ warned' = <<>>
    /\ calls' = <<>>
    /\ saved' = NoValue
    /\ orig' = NoValue
    /\ cycles' = 0
    /\ UNCHANGED <<settings, field>>

\* The framework loads the row: to_python(stored).
Load ==
    /\ field # NoField
    /\ stored # NoValue
    /\ LET r == to_python(field, settings, stored)
       IN  /\ ret' = r.ret
           /\ raised' = r.raised
           /\ branch' = r.branch
           /\ calls' = r.calls
    /\ op' = "decode"
    /\ arg' = stored
    /\ warned' = <<>>
    /\ UNCHANGED <<settings, field, stored, saved, orig, cycles>>

\* The framework loads the row and saves the object back:
\* stored := get_db_prep_value(to_python(stored)).  A load that raises
\* leaves the row as it is.
Resave ==
    /\ field # NoField
    /\ stored # NoValue
    /\ cycles < MaxCycles
    /\ LET d == to_python(field, settings, stored)
       IN  IF d.raised # NoExc
           THEN /\ raised' = d.raised
                /\ ret' = NoValue
                /\ calls' = d.calls
                /\ warned' = <<>>
                /\ UNCHANGED <<stored, cycles>>
           ELSE \E n \in Nonces :
                  LET r == get_db_prep_value(field, settings, d.ret, n)
                  IN  /\ raised' = r.raised
                      /\ ret' = r.ret
                      /\ calls' = d.calls \o r.calls
                      /\ warned' = r.warned
                      /\ stored' = r.ret
                      /\ cycles' = cycles + 1
    /\ op' = "cycle"
    /\ arg' = stored
    /\ branch' = ""
    /\ UNCHANGED <<settings, field, saved, orig>>

Next ==
    ConstructEncrypted \/ ConstructGpg \/ Save \/ SaveAgain \/ LegacyRow \/ Load \/ Resave

Spec == Init /\ [][Next]_vars

\* --------------------------------------------------------- properties
\* Python 2 ==: unicode and str compare equal when the str is ASCII.
PyEq(a, b) ==
    IF a.t = b.t THEN a.s = b.s
    ELSE /\ {a.t, b.t} = {"unicode", "str"}
         /\ a.s = b.s
         /\ \A i \in 1..Len(a.s) : a.s[i] \notin {"E9", "C3", "A9"}

\* Byte length of a value as get_db_prep_value measures it.
ByteLen(v) == IF v.t = "unicode" THEN Len(Utf8Encode(v.s)) ELSE Len(v.s)

\* The engine bound to the field can decrypt what the field encrypts: the
\* Keyczar primary key is not a public key; the GnuPG key-ring holds the
\* secret key of GPG_USER.
DecryptCapable ==
    IF field.cls = "gpg" THEN settings.GPG_USER \in field.secret
    ELSE field.primary_key # "RsaPublicKey"

\* The engine decrypts the ciphertext that follows the prefix in v.
EngineDecrypts(v) ==
    LET c == SubSeq(v.s, Len(Prefix(field)) + 1, Len(v.s))
    IN  IF field.cls = "gpg" THEN GpgDecrypt(c, field.secret).ok
        ELSE KeyczarDecrypt(c).ok

Prefixed(v) == Truthy(v) /\ StartsWith(v, Prefix(field))

DecryptCalled == \E i \in 1..Len(calls) : calls[i].fn = "Decrypt"

\* p is text no longer, in UTF-8 bytes, than the declared maximum length.
WithinDeclared(p) ==
    /\ p.t = "unicode"
    /\ field.unencrypted_length = NoLimit \/ ByteLen(p) <= field.unencrypted_length

\* The last operation loaded the row that the save of `saved` wrote.
LoadedWhatWasSaved == op = "decode" /\ saved # NoValue /\ cycles = 0 /\ arg = orig

\* C1 as claimed: with a decrypt-capable engine, every plaintext within the
\* declared maximum length, empty or beginning with the prefix included,
\* is read back as it was saved.
C1_RoundTripAnyPlaintext ==
    (LoadedWhatWasSaved /\ DecryptCapable /\ WithinDeclared(saved)
       /\ LimitSet(field.unencrypted_length))
        => (raised = NoExc /\ PyEq(ret, saved))

\* C1 as amended: with a decrypt-capable engine, every text plaintext within
\* the declared maximum length that does not begin with the prefix (the
\* empty one included) is read back as it was saved, for both fields.
C1_RoundTrip ==
    (LoadedWhatWasSaved /\ DecryptCapable /\ WithinDeclared(saved)
       /\ ~StartsWith(saved, Prefix(field)))
        => (raised = NoExc /\ PyEq(ret, saved))

C1_Witness ==
    /\ LoadedWhatWasSaved /\ DecryptCapable /\ WithinDeclared(saved)
    /\ field.cls = "gpg"
    /\ LimitSet(field.unencrypted_length)
    /\ saved.s = <<"E9">>
    /\ branch = "decrypt"
    /\ ret = saved

\* C2: with a decrypt-capable engine, decode of a prefixed value whose
\* remainder the engine cannot decrypt ends in a decryption error and
\* returns nothing, for both fields.
C2_CorruptCiphertextRaises ==
    (op = "decode" /\ DecryptCapable /\ Prefixed(arg) /\ ~EngineDecrypts(arg))
        => (raised = KeyczarError /\ ret = NoValue)

C4_TruncationBeforeEncryption ==
    /\ (op = "encode" /\ Truthy(arg) /\ ~StartsWith(arg, Prefix(field))) =>
         LET b == IF arg.t = "unicode" THEN Utf8Encode(arg.s) ELSE arg.s
             n == field.unencrypted_length
         IN  IF LimitSet(n) /\ Len(b) > n
             THEN /\ calls = <<Call("Encrypt", SubSeq(b, 1, n))>>
                  /\ warned = <<[category |-> "EncryptionWarning",
                                 name |-> FieldName, from |-> Len(b), to |-> n]>>
                  /\ raised = NoExc
                  /\ StartsWith(ret, Prefix(field))
             ELSE /\ calls = <<Call("Encrypt", b)>>
                  /\ warned = <<>>
    /\ (LoadedWhatWasSaved /\ DecryptCapable /\ saved.t = "unicode"
          /\ ~StartsWith(saved, Prefix(field))
          /\ LimitSet(field.unencrypted_length)
          /\ ByteLen(saved) > field.unencrypted_length) =>
         /\ raised = NoExc
         /\ ret.t = "unicode"
         /\ Utf8Encode(ret.s) =
                SubSeq(Utf8Encode(saved.s), 1, field.unencrypted_length)

\* C5: encode returns an empty or already prefixed argument unchanged and
\* without an engine call, so encoding what encode returned changes nothing.
C5_IdempotentEncode ==
    op = "encode" =>
        /\ (~Truthy(arg) \/ StartsWith(arg, Prefix(field)))
             => (ret = arg /\ stored = arg /\ calls = <<>> /\ warned = <<>>)
        /\ \A n \in Nonces :
             get_db_prep_value(field, settings, ret, n)
                 = [raised |-> NoExc, ret |-> ret, warned |-> <<>>, calls |-> <<>>]

C5_Witness ==
    /\ op = "encode"
    /\ arg.t = "str" /\ Prefixed(arg) /\ EngineDecrypts(arg)
    /\ ret = arg

\* C6: with an engine that can only encrypt, decode returns every stored
\* value unchanged and never calls decrypt.
C6_EncryptOnlyPassThrough ==
    (op = "decode" /\ ~DecryptCapable)
        => (raised = NoExc /\ ret = arg /\ ~DecryptCalled)

\* C7: decode returns a stored value that is empty or lacks the prefix
\* unchanged, raises nothing and never calls decrypt, whatever the key.
C7_LegacyPassThrough ==
    (op = "decode" /\ ~Prefixed(arg))
        => (raised = NoExc /\ ret = arg /\ ~DecryptCalled)

C7_Witness ==
    /\ op = "decode"
    /\ arg = Uni(SubSeq(Prefix(field), 1, Len(Prefix(field)) - 1))
    /\ DecryptCapable
    /\ branch = "legacy"
    /\ ret = arg

\* The settings each field class requires, in the order __init__ tests them.
RequiredSettings(cls) ==
    IF cls = "gpg" THEN <<"GPG_KEYS_DIR", "GPG_USER">>
    ELSE <<"ENCRYPTED_FIELD_KEYS_DIR">>

MissingSettings(cls) ==
    {i \in 1..Len(RequiredSettings(cls)) : RequiredSettings(cls)[i] \notin settings.has}

\* C8: constructing a field with a required setting absent ends in
\* ImproperlyConfigured naming an absent setting (the first one tested),
\* before the engine is loaded or probed; no field results, so nothing is
\* ever encoded or decoded.
C8_MissingConfiguration ==
    /\ (op = "init" /\ MissingSettings(arg.s[1]) # {}) =>
         LET req == RequiredSettings(arg.s[1])
             first == CHOOSE i \in MissingSettings(arg.s[1]) :
                          \A j \in MissingSettings(arg.s[1]) : i <= j
         IN  /\ raised = ImproperlyConfigured(req[first])
             /\ raised.what \notin settings.has
             /\ field = NoField
             /\ calls = <<>>
    /\ field = NoField => (op \in {"start", "init"} /\ stored = NoValue)

C8_Witness ==
    /\ op = "init"
    /\ arg.s = <<"gpg">>
    /\ settings.has \cap {"GPG_KEYS_DIR", "GPG_USER"} = {}
    /\ raised = ImproperlyConfigured("GPG_KEYS_DIR")
    /\ field = NoField

\* C9: encode returns either its falsy argument or a string that starts
\* with the prefix, so a non-empty row written through encode starts with
\* the prefix and decode never takes it for legacy plaintext.
C9_TaggedOutput ==
    /\ op = "encode" =>
         \/ ret = arg /\ ~Truthy(arg)
         \/ ret.t \in {"str", "unicode"} /\ StartsWith(ret, Prefix(field))
    /\ (saved # NoValue /\ Truthy(stored)) => StartsWith(stored, Prefix(field))
    /\ (op = "decode" /\ saved # NoValue /\ Truthy(arg)) => branch # "legacy"

C9_Witness ==
    /\ op = "decode"
    /\ saved # NoValue
    /\ cycles > 0
    /\ Truthy(arg)
    /\ branch = "decrypt"

\* C10: after any number of load-then-save cycles on a row that encode
\* wrote, an encrypt-only engine leaves the row exactly as encode wrote it,
\* and a decrypt-capable engine leaves a row that decodes to what the
\* original row decoded to.
C10_LoadSaveStable ==
    (saved # NoValue /\ cycles >= 1) =>
        IF ~DecryptCapable THEN stored = orig
        ELSE LET d0 == to_python(field, settings, orig)
                 d1 == to_python(field, settings, stored)
             IN  d1.raised = d0.raised /\ d1.ret = d0.ret

====
